---- MODULE Spec2Model ----
(***************************************************************************)
(* Schema dependency validator (validate_dependencies.py).                 *)
(*                                                                         *)
(* A document is the list of lines sql_content.split('\n').  A line is     *)
(* abstracted to what the two regular expressions of the extractor can     *)
(* see in it: whether it carries leading/trailing whitespace (ws) and the  *)
(* left-to-right sequence of markers on it (toks).  A marker is either a   *)
(* "CREATE TABLE IF NOT EXISTS <name>" match or a                          *)
(* "FOREIGN KEY (...) REFERENCES <name>(" match.                           *)
(*                                                                         *)
(* The dict `tables` is a sequence of entries in insertion order, each     *)
(* [name, dependencies, line_num]; assignment to an existing key replaces  *)
(* the value and keeps the key's place, as a Python dict does.             *)
(***************************************************************************)
EXTENDS Integers, Sequences, FiniteSets, TLC

\* ---------------------------------------------------------------- bounds
MaxLines == 4

\* ---------------------------------------------------------------- inputs
None == "None"

TableNames == {"a", "b"}
RefNames == {"a", "b", "u"}

CreateTok(name) == [type |-> "CREATE", name |-> name]
FkTok(name) == [type |-> "FK", name |-> name]
Ln(ws, toks) == [ws |-> ws, toks |-> toks]

LineSet ==
    {Ln(FALSE, <<>>)}
    \cup {Ln(FALSE, <<CreateTok(t)>>) : t \in TableNames}
    \cup {Ln(TRUE, <<CreateTok("a")>>)}
    \cup {Ln(FALSE, <<FkTok(r)>>) : r \in RefNames}
    \cup {Ln(FALSE, <<CreateTok("a"), FkTok("b")>>)}
    \cup {Ln(FALSE, <<FkTok("u"), FkTok("b")>>)}

Documents == UNION {[1..k -> LineSet] : k \in 1..MaxLines}

\* ------------------------------------------------------ string / regex ops
\* str.strip(): removes the surrounding whitespace, keeps the text.
strip(line) == [line EXCEPT !.ws = FALSE]

\* truth value of a stripped line: the empty string is falsy.
NonBlank(line) == strip(line).toks # <<>>

\* re.search(pattern, line).group(1): the first marker of the given type on
\* the line, or None.
RECURSIVE FirstTok(_, _, _)
FirstTok(toks, type, k) ==
    IF k > Len(toks) THEN None
    ELSE IF toks[k].type = type THEN toks[k].name
    ELSE FirstTok(toks, type, k + 1)

create_match(line) == FirstTok(line.toks, "CREATE", 1)
fk_match(line) == FirstTok(line.toks, "FK", 1)

\* list.index(line): zero-based index of the first element equal to line;
\* -1 stands for the ValueError raised when there is none.
RECURSIVE IndexFrom(_, _, _)
IndexFrom(lines, line, k) ==
    IF k > Len(lines) THEN -1
    ELSE IF lines[k] = line THEN k - 1
    ELSE IndexFrom(lines, line, k + 1)

ListIndex(lines, line) == IndexFrom(lines, line, 1)

\* len([l for l in lines[:idx] if l.strip()])
LineNum(lines, idx) == Cardinality({k \in 1..idx : NonBlank(lines[k])})

\* ------------------------------------------------------------- dict ops
Keys(d) == [k \in 1..Len(d) |-> d[k].name]
HasKey(d, name) == \E k \in 1..Len(d) : d[k].name = name
KeyIndex(d, name) == CHOOSE k \in 1..Len(d) : d[k].name = name
Get(d, name) == d[KeyIndex(d, name)]

\* tables[name] = value
DictSet(d, name, value) ==
    IF HasKey(d, name)
    THEN [d EXCEPT ![KeyIndex(d, name)] = value]
    ELSE Append(d, value)

NewEntry(name, line_num) ==
    [name |-> name, dependencies |-> <<>>, line_num |-> line_num]

\* tables[current_table]['dependencies'].append(referenced_table)
AppendDependency(d, name, referenced_table) ==
    [d EXCEPT ![KeyIndex(d, name)].dependencies = Append(@, referenced_table)]

\* the guard left out: every referenced table is recorded
AnyReference(referenced_table, current) == TRUE

\* `if referenced_table != current_table`
NotSelfReference(referenced_table, current) == referenced_table # current

\* ---------------------------------------------------------------- state
VARIABLES sql_content, pc, n, tables, current_table, i, errors,
          rerun, first_errors,
          file_found, next_error, printed, exit_status

\* the state of main around the two calls: whether open() succeeded, the
\* index of the printing loop, the errors printed so far, the exit status
mainvars == <<file_found, next_error, printed, exit_status>>

vars == <<sql_content, pc, n, tables, current_table, i, errors,
          rerun, first_errors, file_found, next_error, printed, exit_status>>

\* exit_status while the process has not ended
Running == -1

Init ==
    /\ sql_content \in Documents
    /\ pc = "extract"
    /\ n = 1
    /\ tables = <<>>
    /\ current_table = None
    /\ i = 0
    /\ errors = <<>>
    /\ rerun = FALSE
    /\ first_errors = <<>>
    /\ file_found = TRUE
    /\ next_error = 0
    /\ printed = <<>>
    /\ exit_status = Running

\* ------------------------------------------------------ validate helpers
\* the keys taken in reverse insertion order
ReversedOrder(d) == [k \in 1..Len(d) |-> d[Len(d) + 1 - k].name]

\* table_order = list(tables.keys())
TableOrder(d) == Keys(d)

\* table_order.index(dependency), zero-based; -1 when absent
OrderIndex(table_order, dependency) ==
    IF \E k \in 1..Len(table_order) : table_order[k] = dependency
    THEN (CHOOSE k \in 1..Len(table_order) :
            /\ table_order[k] = dependency
            /\ \A j \in 1..(k - 1) : table_order[j] # dependency) - 1
    ELSE -1

\* f"Table '{table_name}' references undefined table '{dependency}'"
UndefinedError(table_name, dependency) ==
    [kind |-> "UndeclaredReference",
     table_name |-> table_name, dependency |-> dependency]

\* f"Dependency error: Table '{table_name}' (position {i+1}) references
\*   table '{dependency}' (position {dependency_index+1}) which is defined
\*   later"
OrderError(table_name, idx, dependency, dependency_index) ==
    [kind |-> "ForwardReference",
     table_name |-> table_name, position |-> idx + 1,
     dependency |-> dependency, dependency_position |-> dependency_index + 1]

\* the comparison turned round: a dependency defined earlier is flagged
DefinedEarlier(dependency_index, idx) == dependency_index < idx

\* `if dependency_index > i`
DefinedLater(dependency_index, idx) == dependency_index > idx

\* `break` in place of `continue`: the rest of the list is dropped
BreakAfterUndefined(rest) == <<>>

\* `continue` after an undefined dependency: the rest of the dependency
\* list is still examined.
ContinueAfterUndefined(rest) == rest

\* the body of `for dependency in table_info['dependencies']`, from the
\* k-th dependency on; returns the errors appended by the loop.
RECURSIVE CheckDependencies(_, _, _, _, _)
CheckDependencies(d, table_order, idx, deps, k) ==
    IF k > Len(deps) THEN <<>>
    ELSE LET dependency == deps[k]
             table_name == table_order[idx + 1]
             rest == CheckDependencies(d, table_order, idx, deps, k + 1)
         IN IF ~HasKey(d, dependency)
            THEN <<UndefinedError(table_name, dependency)>>
                    \o ContinueAfterUndefined(rest)
            ELSE LET dependency_index == OrderIndex(table_order, dependency)
                 IN IF DefinedLater(dependency_index, idx)
                    THEN <<OrderError(table_name, idx,
                                      dependency, dependency_index)>> \o rest
                    ELSE rest

\* ------------------------------------------- extract_table_definitions
\* `create_match` found and lines.index(line) succeeds: open (or re-open)
\* the table and go to the next line.
ExtractCreate ==
    /\ pc = "extract"
    /\ n <= Len(sql_content)
    /\ LET line == strip(sql_content[n])
           name == create_match(line)
           idx == ListIndex(sql_content, line)
       IN /\ name # None
          /\ idx # -1
          /\ current_table' = name
          /\ tables' = DictSet(tables, name,
                               NewEntry(name, LineNum(sql_content, idx)))
    /\ n' = n + 1
    /\ UNCHANGED <<sql_content, pc, i, errors, rerun, first_errors>>
    /\ UNCHANGED mainvars

\* `create_match` found but the stripped line is not an element of lines:
\* lines.index(line) raises ValueError, which nothing catches.
ExtractCreateRaise ==
    /\ pc = "extract"
    /\ n <= Len(sql_content)
    /\ LET line == strip(sql_content[n])
       IN /\ create_match(line) # None
          /\ ListIndex(sql_content, line) = -1
    /\ pc' = "raised"
    /\ UNCHANGED <<sql_content, n, tables, current_table, i, errors,
                   rerun, first_errors>>
    /\ UNCHANGED mainvars

\* no CREATE TABLE on the line, a table is open and the line has a
\* FOREIGN KEY match.
ExtractForeignKey ==
    /\ pc = "extract"
    /\ n <= Len(sql_content)
    /\ LET line == strip(sql_content[n])
           referenced_table == fk_match(line)
       IN /\ create_match(line) = None
          /\ current_table # None
          /\ referenced_table # None
          /\ tables' = IF NotSelfReference(referenced_table, current_table)
                       THEN AppendDependency(tables, current_table,
                                             referenced_table)
                       ELSE tables
    /\ n' = n + 1
    /\ UNCHANGED <<sql_content, pc, current_table, i, errors,
                   rerun, first_errors>>
    /\ UNCHANGED mainvars

\* a line with neither match, or a FOREIGN KEY line before any table.
ExtractSkip ==
    /\ pc = "extract"
    /\ n <= Len(sql_content)
    /\ LET line == strip(sql_content[n])
       IN /\ create_match(line) = None
          /\ \/ current_table = None
             \/ fk_match(line) = None
    /\ n' = n + 1
    /\ UNCHANGED <<sql_content, pc, tables, current_table, i, errors,
                   rerun, first_errors>>
    /\ UNCHANGED mainvars

\* `return tables`; validate_dependencies starts with errors = [].
ExtractReturn ==
    /\ pc = "extract"
    /\ n > Len(sql_content)
    /\ pc' = "validate"
    /\ i' = 0
    /\ errors' = <<>>
    /\ UNCHANGED <<sql_content, n, tables, current_table,
                   rerun, first_errors>>
    /\ UNCHANGED mainvars

\* ------------------------------------------------ validate_dependencies
\* one iteration of `for i, table_name in enumerate(table_order)`.
ValidateTable ==
    /\ pc = "validate"
    /\ i < Len(TableOrder(tables))
    /\ LET table_order == TableOrder(tables)
           table_info == Get(tables, table_order[i + 1])
       IN errors' = errors \o CheckDependencies(tables, table_order, i,
                                                table_info.dependencies, 1)
    /\ i' = i + 1
    /\ UNCHANGED <<sql_content, pc, n, tables, current_table,
                   rerun, first_errors>>
    /\ UNCHANGED mainvars

\* `return errors`
ValidateReturn ==
    /\ pc = "validate"
    /\ i >= Len(TableOrder(tables))
    /\ pc' = "done"
    /\ UNCHANGED <<sql_content, n, tables, current_table, i, errors,
                   rerun, first_errors>>
    /\ UNCHANGED mainvars

\* a second call of extract then validate on the same document: both
\* functions start from fresh locals; the first list is kept to compare.
Rerun ==
    /\ pc = "done"
    /\ ~rerun
    /\ rerun' = TRUE
    /\ first_errors' = errors
    /\ pc' = "extract"
    /\ n' = 1
    /\ tables' = <<>>
    /\ current_table' = None
    /\ i' = 0
    /\ errors' = <<>>
    /\ UNCHANGED sql_content
    /\ UNCHANGED mainvars

Next ==
    \/ ExtractCreate
    \/ ExtractCreateRaise
    \/ ExtractForeignKey
    \/ ExtractSkip
    \/ ExtractReturn
    \/ ValidateTable
    \/ ValidateReturn
    \/ Rerun

Spec == Init /\ [][Next]_vars

TypeOK ==
    /\ sql_content \in Documents
    /\ pc \in {"extract", "validate", "done", "raised"}
    /\ n \in 1..(Len(sql_content) + 1)
    /\ current_table \in TableNames \cup {None}
    /\ i \in 0..Len(tables)
    /\ rerun \in BOOLEAN

\* ---------------------------------------------------- reading the document
\* All markers of the document in document order (line by line, left to
\* right); `alone` tells that the marker is the only one on its line.
RECURSIVE MarkersFrom(_, _)
MarkersFrom(doc, k) ==
    IF k > Len(doc) THEN <<>>
    ELSE [j \in 1..Len(doc[k].toks) |->
            [type |-> doc[k].toks[j].type, name |-> doc[k].toks[j].name,
             alone |-> Len(doc[k].toks) = 1]]
         \o MarkersFrom(doc, k + 1)

Markers == MarkersFrom(sql_content, 1)

\* places of the declaration markers, and of those declaring `name`
DeclPlaces == {m \in 1..Len(Markers) : Markers[m].type = "CREATE"}
Occurrences(name) == {m \in DeclPlaces : Markers[m].name = name}
FirstOccurrence(name) ==
    CHOOSE m \in Occurrences(name) : \A j \in Occurrences(name) : m <= j

\* zero-based ordinal of the declaration marker at place m among all
\* declaration markers
Ordinal(m) == Cardinality({j \in DeclPlaces : j < m})

\* dependency markers in the span opened by the declaration marker at m
SpanOf(m) ==
    {f \in (m + 1)..Len(Markers) :
        /\ Markers[f].type = "FK"
        /\ \A j \in (m + 1)..f : Markers[j].type # "CREATE"}

Range(seq) == {seq[k] : k \in 1..Len(seq)}

\* position of a key in the mapping: its ordinal in key order, counted
\* from one as the messages of validate_dependencies print it
Position(name) == KeyIndex(tables, name)

Returned == pc = "done"

\* ------------------------------------------------------------------- C1
\* C1: when validate has returned, for every declaration d of the mapping
\* and every dependency r of d that is a key of the mapping, the list holds
\* the ForwardReference of d (at its position) to r (at its position) if
\* and only if r's position is greater than d's; a dependency at an
\* earlier or equal position has no violation at all, whatever violations
\* were found before it.
C1_ForwardReferenceExact ==
    Returned =>
        \A p \in 1..Len(tables) :
            \A k \in 1..Len(tables[p].dependencies) :
                LET d == tables[p].name
                    r == tables[p].dependencies[k]
                IN HasKey(tables, r) =>
                    /\ (Position(r) > Position(d)) <=>
                          ([kind |-> "ForwardReference",
                            table_name |-> d, position |-> Position(d),
                            dependency |-> r,
                            dependency_position |-> Position(r)]
                              \in Range(errors))
                    /\ (Position(r) <= Position(d)) =>
                          ~\E e \in Range(errors) :
                              e.table_name = d /\ e.dependency = r

\* a run that reported a forward reference and also accepted a dependency
\* on an earlier declaration
C1_Witness ==
    /\ Returned
    /\ \E e \in Range(errors) : e.kind = "ForwardReference"
    /\ \E p \in 1..Len(tables) :
          \E r \in Range(tables[p].dependencies) :
              HasKey(tables, r) /\ Position(r) < p

\* ------------------------------------------------------------------- C2
\* C2: when validate has returned, every dependency r of a declaration d
\* that is not a key of the mapping has its UndeclaredReference(d, r) in
\* the list and no ForwardReference for the pair; and every dependency
\* that comes after an undeclared one (later in d's list, or in a later
\* declaration) has still been checked: it is reported when it is
\* undeclared or declared later.
IsUndeclared(p, k) == ~HasKey(tables, tables[p].dependencies[k])

Reported(p, k) ==
    LET d == tables[p].name
        r == tables[p].dependencies[k]
    IN IF ~HasKey(tables, r)
       THEN \E e \in Range(errors) :
               e.kind = "UndeclaredReference"
               /\ e.table_name = d /\ e.dependency = r
       ELSE Position(r) > p =>
               \E e \in Range(errors) :
                   e.kind = "ForwardReference"
                   /\ e.table_name = d /\ e.dependency = r

C2_UndeclaredReported ==
    Returned =>
        \A p \in 1..Len(tables) :
            \A k \in 1..Len(tables[p].dependencies) :
                LET d == tables[p].name
                    r == tables[p].dependencies[k]
                IN /\ IsUndeclared(p, k) =>
                        /\ UndefinedError(d, r) \in Range(errors)
                        /\ ~\E e \in Range(errors) :
                               e.kind = "ForwardReference"
                               /\ e.table_name = d /\ e.dependency = r
                   /\ (\E p0 \in 1..p :
                         \E k0 \in 1..Len(tables[p0].dependencies) :
                             /\ p0 < p \/ k0 < k
                             /\ IsUndeclared(p0, k0))
                        => Reported(p, k)

\* a run where an undeclared reference was followed, for the same
\* declaration, by a dependency that was reported too
C2_Witness ==
    /\ Returned
    /\ \E j \in 1..Len(errors) :
          \E k \in (j + 1)..Len(errors) :
              /\ errors[j].kind = "UndeclaredReference"
              /\ errors[k].kind = "ForwardReference"
              /\ errors[j].table_name = errors[k].table_name

\* ------------------------------------------------------------------- C6
\* C6: in every state, no declaration of the mapping has its own name
\* among its dependencies, and the violation list has no entry whose
\* subject and target are the same name.
C6_NoSelfReference ==
    /\ \A p \in 1..Len(tables) :
          tables[p].name \notin Range(tables[p].dependencies)
    /\ \A e \in Range(errors) : e.table_name # e.dependency

\* a finished run on a document where a name is declared twice and both
\* spans hold a dependency marker naming the declaration itself
C6_Witness ==
    /\ Returned
    /\ \E t \in TableNames :
          /\ Cardinality(Occurrences(t)) >= 2
          /\ \A m \in Occurrences(t) :
                \E f \in SpanOf(m) : Markers[f].name = t /\ Markers[f].alone

\* ------------------------------------------------------------------- C9
\* C9: the violation list is the one fixed by the mapping's order: it is
\* the violations of the first key in the order of its dependency list,
\* then those of the second key, and so on; a second extract-then-validate
\* of the same document returns the same list; and no step of validate
\* changes the mapping.
Violates(p, k) ==
    LET r == tables[p].dependencies[k]
    IN ~HasKey(tables, r) \/ Position(r) > p

\* the pairs <<p, k>> that violate, as indices into the mapping
ViolatingPairs(upto) ==
    {pk \in UNION {{<<p, k>> : k \in 1..Len(tables[p].dependencies)} :
                     p \in 1..upto} : Violates(pk[1], pk[2])}

LexBefore(x, y) == x[1] < y[1] \/ (x[1] = y[1] /\ x[2] < y[2])

\* errors lists the violating pairs of the first `upto` keys in
\* lexicographic order, one entry each
InMappingOrder(upto) ==
    LET V == ViolatingPairs(upto)
    IN /\ Len(errors) = Cardinality(V)
       /\ \A pk \in V :
             LET j == 1 + Cardinality({x \in V : LexBefore(x, pk)})
             IN /\ errors[j].table_name = tables[pk[1]].name
                /\ errors[j].dependency = tables[pk[1]].dependencies[pk[2]]

KeysInDocumentOrder ==
    \A p, q \in 1..Len(tables) :
        p < q => FirstOccurrence(tables[p].name)
                    < FirstOccurrence(tables[q].name)

C9_OrderedState ==
    /\ pc = "validate" => InMappingOrder(i)
    /\ Returned => InMappingOrder(Len(tables)) /\ KeysInDocumentOrder
    /\ (Returned /\ rerun) => errors = first_errors

C9_DeterministicOrdered ==
    /\ []C9_OrderedState
    /\ [][pc = "validate" => tables' = tables]_vars

\* a second run that has returned two violations of two different
\* subjects
C9_Witness ==
    /\ Returned
    /\ rerun
    /\ \E j \in 1..Len(errors) :
          \E k \in (j + 1)..Len(errors) :
              errors[j].table_name # errors[k].table_name

\* ------------------------------------------------------------------- C3
\* C3: when validate has returned, every name declared two or more times
\* in the document has exactly one DuplicateDeclaration in the list.
C3_OneDuplicatePerName ==
    Returned =>
        \A t \in TableNames :
            Cardinality(Occurrences(t)) >= 2 =>
                Cardinality({k \in 1..Len(errors) :
                                /\ errors[k].kind = "DuplicateDeclaration"
                                /\ errors[k].table_name = t}) = 1

\* ------------------------------------------------------------------- C4
\* C4: no step of extract removes a recorded dependency: every name that
\* is among the dependencies of a declaration before the step is still
\* among the dependencies of that declaration after it.
C4_NotOverwritten ==
    [][(pc = "extract" /\ pc' = "extract") =>
          \A p \in 1..Len(tables) :
              /\ HasKey(tables', tables[p].name)
              /\ Range(tables[p].dependencies)
                    \subseteq Range(Get(tables', tables[p].name).dependencies)
      ]_vars

\* ------------------------------------------------------------------- C5
\* C5: when validate has returned, for every name d declared more than
\* once: a dependency marker standing alone on a line of d's first span
\* and naming a table first declared later yields a ForwardReference of d;
\* a dependency on d of a table declared once is decided on d's first
\* occurrence; and the positions shown for d in a ForwardReference are the
\* ordinals, among all declaration markers, of the first occurrences
\* (shown counted from one).
FirstOrdinal(name) == Ordinal(FirstOccurrence(name))

HasForward(subject, target) ==
    \E e \in Range(errors) :
        /\ e.kind = "ForwardReference"
        /\ e.table_name = subject
        /\ e.dependency = target

C5_FirstOccurrencePosition ==
    Returned =>
        \A d \in TableNames :
            Cardinality(Occurrences(d)) >= 2 =>
                /\ \A f \in SpanOf(FirstOccurrence(d)) :
                      LET r == Markers[f].name
                      IN (/\ Markers[f].alone
                          /\ r # d
                          /\ Occurrences(r) # {}
                          /\ FirstOrdinal(r) > FirstOrdinal(d))
                            => HasForward(d, r)
                /\ \A s \in TableNames :
                      \A f \in UNION {SpanOf(m) : m \in Occurrences(s)} :
                          (/\ Cardinality(Occurrences(s)) = 1
                           /\ Markers[f].alone
                           /\ Markers[f].name = d
                           /\ s # d)
                            => (HasForward(s, d)
                                  <=> FirstOrdinal(d) > FirstOrdinal(s))
                /\ \A e \in Range(errors) :
                      (/\ e.kind = "ForwardReference"
                       /\ d \in {e.table_name, e.dependency})
                        => /\ e.position = FirstOrdinal(e.table_name) + 1
                           /\ e.dependency_position
                                 = FirstOrdinal(e.dependency) + 1

\* ------------------------------------------------------------------- C7
\* C7: when extract has returned, a name declared exactly once is a key of
\* the mapping whose dependencies are exactly the names (other than its
\* own) of the dependency markers between its declaration marker and the
\* next declaration marker or the end of the document; a name never
\* declared is not a key.
SpanNames(t) ==
    {Markers[f].name : f \in SpanOf(FirstOccurrence(t))} \ {t}

C7_AttributedToOpenDeclaration ==
    pc \in {"validate", "done"} =>
        \A t \in TableNames :
            /\ Occurrences(t) = {} => ~HasKey(tables, t)
            /\ Cardinality(Occurrences(t)) = 1 =>
                  /\ HasKey(tables, t)
                  /\ Range(Get(tables, t).dependencies) = SpanNames(t)

\* ------------------------------------------------------------------- C8
\* C8: extract and validate never raise, and for a document without any
\* declaration marker the returned mapping and violation list are empty.
C8_NeverRaises ==
    /\ pc # "raised"
    /\ (Returned /\ DeclPlaces = {}) => (tables = <<>> /\ errors = <<>>)

\* ------------------------------------------------------------------ C10
\* C10: in every state, no name occurs twice in the dependencies of a
\* declaration, and no two entries of the violation list have the same
\* subject and target.
C10_DependenciesAreSet ==
    /\ \A p \in 1..Len(tables) :
          \A j, k \in 1..Len(tables[p].dependencies) :
              j # k => tables[p].dependencies[j] # tables[p].dependencies[k]
    /\ \A j, k \in 1..Len(errors) :
          j # k => \/ errors[j].table_name # errors[k].table_name
                   \/ errors[j].dependency # errors[k].dependency

\* ------------------------------------------------------------------ main
\* The run of the script: main reads my.sql, calls
\* extract_table_definitions and validate_dependencies (the actions above),
\* prints the errors and ends the process.  `printed` holds the error
\* lines written to stdout; the headings and the table listing carry no
\* state and are left out.
MainInit ==
    /\ sql_content = <<>>
    /\ pc = "main"
    /\ n = 1
    /\ tables = <<>>
    /\ current_table = None
    /\ i = 0
    /\ errors = <<>>
    /\ rerun = FALSE
    /\ first_errors = <<>>
    /\ file_found = FALSE
    /\ next_error = 0
    /\ printed = <<>>
    /\ exit_status = Running

\* open() and f.read() succeed: sql_content is the file's text and
\* extract_table_definitions is called.
MainRead ==
    /\ pc = "main"
    /\ \E doc \in Documents : sql_content' = doc
    /\ file_found' = TRUE
    /\ pc' = "extract"
    /\ UNCHANGED <<n, tables, current_table, i, errors, rerun, first_errors,
                   next_error, printed, exit_status>>

\* `except FileNotFoundError`: the message is printed and sys.exit(1).
MainFileNotFound ==
    /\ pc = "main"
    /\ exit_status' = 1
    /\ pc' = "exit_not_found"
    /\ UNCHANGED <<sql_content, n, tables, current_table, i, errors, rerun,
                   first_errors, file_found, next_error, printed>>

\* open() or read() raises something else (PermissionError,
\* UnicodeDecodeError, ...): the except clause does not match.
MainReadRaises ==
    /\ pc = "main"
    /\ pc' = "raised"
    /\ UNCHANGED <<sql_content, n, tables, current_table, i, errors, rerun,
                   first_errors, file_found, next_error, printed,
                   exit_status>>

\* the exit status the interpreter gives an uncaught exception
UncaughtStatus == 1

\* an exception leaves main and __main__: traceback, exit status 1.
MainUncaught ==
    /\ pc = "raised"
    /\ exit_status' = UncaughtStatus
    /\ pc' = "exit_uncaught"
    /\ UNCHANGED <<sql_content, n, tables, current_table, i, errors, rerun,
                   first_errors, file_found, next_error, printed>>

\* the list is taken for empty unless it has two entries or more
MoreThanOneError(errs) == Len(errs) > 1

\* `if errors:` a non-empty list is true
HasErrors(errs) == errs # <<>>

\* `if errors:` taken: "VALIDATION FAILED", then the printing loop.
MainErrorsFound ==
    /\ pc = "done"
    /\ HasErrors(errors)
    /\ next_error' = 0
    /\ pc' = "report"
    /\ UNCHANGED <<sql_content, n, tables, current_table, i, errors, rerun,
                   first_errors, file_found, printed, exit_status>>

\* `else:` taken: "VALIDATION PASSED".
MainNoErrors ==
    /\ pc = "done"
    /\ ~HasErrors(errors)
    /\ pc' = "passed"
    /\ UNCHANGED <<sql_content, n, tables, current_table, i, errors, rerun,
                   first_errors, file_found, next_error, printed,
                   exit_status>>

\* one iteration of `for error in errors: print(...)`.
MainPrintError ==
    /\ pc = "report"
    /\ next_error < Len(errors)
    /\ printed' = Append(printed, errors[next_error + 1])
    /\ next_error' = next_error + 1
    /\ UNCHANGED <<sql_content, pc, n, tables, current_table, i, errors,
                   rerun, first_errors, file_found, exit_status>>

\* the loop is over: sys.exit(1).
MainExitFailure ==
    /\ pc = "report"
    /\ next_error >= Len(errors)
    /\ exit_status' = 1
    /\ pc' = "exit_failed"
    /\ UNCHANGED <<sql_content, n, tables, current_table, i, errors, rerun,
                   first_errors, file_found, next_error, printed>>

\* the else branch runs to the end of main: the process ends with 0.
MainPass ==
    /\ pc = "passed"
    /\ exit_status' = 0
    /\ pc' = "exit_passed"
    /\ UNCHANGED <<sql_content, n, tables, current_table, i, errors, rerun,
                   first_errors, file_found, next_error, printed>>

MainNext ==
    \/ MainRead
    \/ MainFileNotFound
    \/ MainReadRaises
    \/ ExtractCreate
    \/ ExtractCreateRaise
    \/ ExtractForeignKey
    \/ ExtractSkip
    \/ ExtractReturn
    \/ ValidateTable
    \/ ValidateReturn
    \/ MainErrorsFound
    \/ MainNoErrors
    \/ MainPrintError
    \/ MainExitFailure
    \/ MainPass
    \/ MainUncaught

MainSpec == MainInit /\ [][MainNext]_vars

\* ------------------------------------------------------------------ C11
\* C11: a run of main that got a violation list from validate ends with
\* status 0 exactly when that list is empty and with a non-zero status
\* otherwise, and a run that ends with a non-empty list has printed every
\* entry of it, in order, before the exit; status 0 is reached in no other
\* way; and while the document has not been read, extract and validate
\* have not taken a step, and the run ends with a non-zero status.
Exited == exit_status # Running

C11_ExitStatus ==
    /\ Exited => exit_status \in {0, 1}
    /\ pc \in {"exit_failed", "exit_passed"} =>
          ((exit_status = 0) <=> (errors = <<>>))
    /\ exit_status = 0 =>
          /\ file_found
          /\ pc = "exit_passed"
          /\ n > Len(sql_content)
          /\ i = Len(tables)
          /\ errors = <<>>
    /\ (Exited /\ errors # <<>>) =>
          /\ exit_status # 0
          /\ printed = errors
    /\ ~file_found =>
          /\ pc \in {"main", "raised", "exit_not_found", "exit_uncaught"}
          /\ sql_content = <<>> /\ n = 1 /\ tables = <<>>
          /\ i = 0 /\ errors = <<>> /\ printed = <<>>
          /\ Exited => exit_status # 0

\* a run that ended in failure after printing two violations
C11_Witness ==
    /\ pc = "exit_failed"
    /\ exit_status = 1
    /\ Len(errors) >= 2
    /\ printed = errors

====
